---- MODULE Spec2Model ----
(***************************************************************************)
(* Model of the two demonstration scripts of the repository:               *)
(*   sap/code_quantlets/SAP_show_plots.py  (statistical plot gallery)      *)
(*   src/figures/F5_30_filter_images.py    (image filter demo)             *)
(* pyplot's figure registry, the file system, the console and the screen   *)
(* are the state; each statement (or call) of a script is one action.      *)
(***************************************************************************)
EXTENDS Integers, Sequences, FiniteSets, TLC

VARIABLES
    pc,           \* position in SAP_show_plots.py (__main__: simplePlots, show3D)
    styleAvail,   \* utilities.SAP_mystyle could be imported
    cwdWritable,  \* the output directory '.' can be written
    rng,          \* state of the process-global numpy generator
    x, y, errorBar, df, df2,   \* the data of simplePlots
    fontSize,     \* global style: font size (0: default of the context)
    figs,         \* pyplot's open figures, the last one is the current figure
    files,        \* files written, in order
    stdout,       \* lines printed
    screen,       \* figures displayed, in order
    calls,        \* history of the printout calls
    pcF,          \* position in F5_30_filter_images.py
    myStyleAvail, \* utilities.my_style could be imported
    img, img_f, Filters, filtered, axs,   \* the data of the filter script
    runA, runB    \* two separate runs of simplePlots (data only)

plotVars   == <<pc, styleAvail, rng, x, y, errorBar, df, df2, fontSize, calls>>
pltVars    == <<figs, files, stdout, screen, cwdWritable>>
filterVars == <<pcF, myStyleAvail, img, img_f, Filters, filtered, axs>>
runVars    == <<runA, runB>>
vars       == <<plotVars, pltVars, filterVars, runVars>>

----------------------------------------------------------------------------
(* Bounds of the model *)

RngModulus  == 64     \* number of states of the abstract generator
RngInitMax  == 7      \* initial generator states are 0..RngInitMax
ImgH        == 11     \* rows of the test images
ImgW        == 12     \* columns of the test images

(* Constants of the program *)

SeedValue   == 1234
NSamples    == 500
DfRows      == 10
DfCols      == 4
Df2Rows     == 50
Df2Cols     == 3
NErr        == 5
Font16      == 16
Font20      == 20
KernelSize  == 11
KernelArea  == 121
Threshold   == 125

----------------------------------------------------------------------------
(* numpy.random: the legacy global generator, abstracted to a full-period   *)
(* congruential generator; a draw returns the state and advances it.        *)

\* (mutant) the call that seeds the generator left out
RngSeedSkipped(cur, s) == cur

\* np.random.seed(s) on a generator in state cur
RngSeed(cur, s) == s % RngModulus

RngNext(s) == (5 * s + 3) % RngModulus

\* n values drawn in sequence from state s; n is halved at each level, and
\* the comparison makes the state between the halves a value before the
\* second half is drawn
RECURSIVE RngDraws(_, _)
RngDraws(s, n) ==
    IF n = 0 THEN <<>>
    ELSE IF n = 1 THEN <<s>>
    ELSE LET h    == n \div 2
             left == RngDraws(s, h)
             m    == RngNext(left[h])
         IN  IF m >= 0 THEN left \o RngDraws(m, n - h) ELSE left

\* np.random.randn(n): n values drawn in sequence
Randn(s, n) ==
    LET d == RngDraws(s, n)
    IN  [vals |-> d, rng |-> RngNext(d[n])]

\* np.random.rand(r, c): r*c values drawn in sequence, filled row by row
Rand(s, r, c) ==
    LET d == RngDraws(s, r * c)
    IN  [vals |-> [i \in 1..r |-> [j \in 1..c |-> d[(i - 1) * c + j]]],
         rng  |-> RngNext(d[r * c])]

----------------------------------------------------------------------------
(* numpy arithmetic of the errorbar demo.  A float is a fraction n/d.       *)

Arange(n) == [i \in 1..n |-> i - 1]

Square(a) == [i \in DOMAIN a |-> a[i] * a[i]]

\* (mutant) a // k: floor division
FloorDiv(a, k) == [i \in DOMAIN a |-> [n |-> a[i] \div k, d |-> 1]]

\* a / k on an integer array: true division, the result is a float array
TrueDiv(a, k) == [i \in DOMAIN a |-> [n |-> a[i], d |-> k]]

----------------------------------------------------------------------------
(* matplotlib.pyplot and the process environment.  A world w is the record  *)
(* of everything a call can change; the operators below are the library     *)
(* calls, in the order in which the scripts use them.                       *)

World == [figs |-> figs, files |-> files, stdout |-> stdout, screen |-> screen,
          ops |-> <<>>, raised |-> FALSE]

Margin == 1     \* what autoscaling adds on each side of the data range

NewFigure(n) == [num |-> n, artists |-> <<>>, xlabel |-> "", ylabel |-> "",
                 title |-> "", xlim |-> <<0, 1>>, autox |-> TRUE]

MaxNum(fs) == IF fs = <<>> THEN 0
              ELSE CHOOSE n \in {fs[i].num : i \in DOMAIN fs} :
                       \A i \in DOMAIN fs : fs[i].num <= n

\* plt.figure(): a new figure, which becomes the current one
Figure(w) == [w EXCEPT !.figs = Append(@, NewFigure(MaxNum(@) + 1))]

\* plt.gcf() / plt.gca(): the current figure, created when none is open
Gcf(w) == IF w.figs = <<>> THEN Figure(w) ELSE w

Cur(w) == w.figs[Len(w.figs)]

Op(w, name) == [w EXCEPT !.ops = Append(@, name)]

\* a plotting call on the current axes; the data span lo..hi
Draw(w, kind, lo, hi) ==
    LET g == Gcf(w)
        f == Cur(g)
        l == IF f.artists = <<>> THEN <<lo - Margin, hi + Margin>>
             ELSE <<IF lo - Margin < f.xlim[1] THEN lo - Margin ELSE f.xlim[1],
                    IF hi + Margin > f.xlim[2] THEN hi + Margin ELSE f.xlim[2]>>
    IN  [Op(g, kind) EXCEPT
            !.figs[Len(g.figs)].artists = Append(@, [kind |-> kind, lo |-> lo, hi |-> hi]),
            !.figs[Len(g.figs)].xlim    = IF f.autox THEN l ELSE @]

Xlabel(w, s) == LET g == Gcf(w) IN [Op(g, "xlabel") EXCEPT !.figs[Len(g.figs)].xlabel = s]
Ylabel(w, s) == LET g == Gcf(w) IN [Op(g, "ylabel") EXCEPT !.figs[Len(g.figs)].ylabel = s]
Title(w, s)  == LET g == Gcf(w) IN [Op(g, "title")  EXCEPT !.figs[Len(g.figs)].title = s]

\* plt.xlim / Axes.set_xlim: fixes the limits and turns autoscaling off
SetXlim(w, l) ==
    LET g == Gcf(w)
    IN  [Op(g, "set_xlim") EXCEPT !.figs[Len(g.figs)].xlim = l,
                                  !.figs[Len(g.figs)].autox = FALSE]

\* plt.hlines(y, xmin, xmax)
Hlines(w, yy, xmin, xmax) == Draw(w, "hlines", xmin, xmax)

\* (mutant) the file name alone
PathJoinNoDir(outDir, outFile) == outFile

\* os.path.join(outDir, outFile), outFile a plain file name
PathJoin(outDir, outFile) == outDir \o "/" \o outFile

\* the file system has the one directory '.'
Writable(dir) == dir = "." /\ cwdWritable

\* plt.savefig(path), path in directory dir: writes the current figure as it
\* is now rendered, or raises
Savefig(w, dir, path) ==
    LET g == Gcf(w)
    IN  IF ~Writable(dir)
        THEN [Op(g, "savefig") EXCEPT !.raised = TRUE]
        ELSE [Op(g, "savefig") EXCEPT
                 !.files = Append(@, [path |-> path, fig |-> Cur(g), font |-> fontSize])]

PyPrint(w, line) == [Op(w, "print") EXCEPT !.stdout = Append(@, line)]

\* plt.show(): displays every open figure; with a blocking window backend
\* the figures are destroyed when their windows are closed (destroys), with
\* a non-interactive backend they stay open
Show(w, destroys) ==
    [Op(w, "show") EXCEPT !.screen = @ \o w.figs,
                          !.figs   = IF destroys THEN <<>> ELSE @]

\* plt.close(): closes the current figure, if there is one
Close(w) ==
    [Op(w, "close") EXCEPT !.figs = IF @ = <<>> THEN @ ELSE SubSeq(@, 1, Len(@) - 1)]

----------------------------------------------------------------------------
(* SAP_show_plots.py: the style functions and printout *)

\* the fallbacks defined when utilities.SAP_mystyle cannot be imported
setFontsFallback(cur, size) == cur

\* (mutant) a fallback that saves the figure before it displays it
showDataFallbackSaving(w, outFile, destroys) ==
    Show(Savefig(w, ".", PathJoin(".", outFile)), destroys)

showDataFallback(w, outFile, destroys) == Show(w, destroys)

\* the functions of utilities.SAP_mystyle: set the font size; save the
\* named figure, report it, display it and release it
setFontsStyle(cur, size) == size

showDataStyle(w, outFile, destroys) ==
    LET w1 == Savefig(w, ".", PathJoin(".", outFile))
        w2 == PyPrint(PyPrint(w1, "OutDir: " \o "."), "Figure saved to " \o outFile)
        w3 == Show(w2, destroys)
    IN  IF w1.raised THEN w1 ELSE Close(w3)

setFonts(cur, size) ==
    IF styleAvail THEN setFontsStyle(cur, size) ELSE setFontsFallback(cur, size)

showData(w, outFile, destroys) ==
    IF styleAvail THEN showDataStyle(w, outFile, destroys)
    ELSE showDataFallback(w, outFile, destroys)

printout(w, outFile, xlabel, ylabel, title, outDir, destroys) ==
    LET w1     == Title(Ylabel(Xlabel(w, xlabel), ylabel), title)
        xlim   == Cur(w1).xlim
        w2     == SetXlim(Hlines(w1, 0, xlim[1], xlim[2]), xlim)
        saveTo == PathJoin(outDir, outFile)
        w3     == Savefig(w2, outDir, saveTo)
        w4     == PyPrint(w3, "OutDir: " \o outDir)
        w5     == PyPrint(w4, "Figure saved to " \o outFile)
        w6     == Close(Show(w5, destroys))
    IN  IF w3.raised THEN w3 ELSE w6

----------------------------------------------------------------------------
(* SAP_show_plots.py: simplePlots and show3D, statement by statement.  The  *)
(* x coordinates of the figures are in tenths.                              *)

Tenths == 10

\* the effect of a world on the state, and the next position
Commit(w, next) ==
    /\ figs'   = w.figs
    /\ files'  = w.files
    /\ stdout' = w.stdout
    /\ screen' = w.screen
    /\ pc'     = IF w.raised THEN "raised" ELSE next
    /\ UNCHANGED <<cwdWritable, styleAvail, filterVars, runVars>>

\* a statement that only draws
Plot(from, next, w) ==
    /\ pc = from
    /\ Commit(w, next)
    /\ UNCHANGED <<rng, x, y, errorBar, df, df2, fontSize, calls>>

\* a call of printout, recorded in calls
CallPrintout(from, next, outFile, xlabel, ylabel, title, outDir) ==
    /\ pc = from
    /\ \E destroys \in BOOLEAN :
          LET w0 == World
              w  == printout(w0, outFile, xlabel, ylabel, title, outDir, destroys)
          IN  /\ Commit(w, next)
              /\ calls' = Append(calls,
                             [outFile |-> outFile, outDir |-> outDir,
                              xlabel |-> xlabel, ylabel |-> ylabel, title |-> title,
                              before |-> Cur(Gcf(w0)), ops |-> w.ops,
                              returned |-> ~w.raised,
                              file |-> Len(w.files), open |-> Len(w.figs)])
    /\ UNCHANGED <<rng, x, y, errorBar, df, df2, fontSize>>

\* a statement that only changes data or style
Data(from, next) ==
    /\ pc = from
    /\ pc' = next
    /\ UNCHANGED <<styleAvail, calls, pltVars, filterVars, runVars>>

Seed1 ==
    /\ Data("L70", "L73")
    /\ rng' = RngSeed(rng, SeedValue)
    /\ UNCHANGED <<x, y, errorBar, df, df2, fontSize>>

DrawX ==
    /\ Data("L73", "L77")
    /\ x' = Randn(rng, NSamples).vals
    /\ rng' = Randn(rng, NSamples).rng
    /\ UNCHANGED <<y, errorBar, df, df2, fontSize>>

SnsSet ==
    /\ Data("L77", "L80")
    /\ fontSize' = 0
    /\ UNCHANGED <<rng, x, y, errorBar, df, df2>>

SetFonts16 ==
    /\ Data("L80", "L83")
    /\ fontSize' = setFonts(fontSize, Font16)
    /\ UNCHANGED <<rng, x, y, errorBar, df, df2>>

Scatter ==
    Plot("L83", "L87",
         SetXlim(Draw(World, "scatter", 0, Tenths * (Len(x) - 1)), <<0, Tenths * Len(x)>>))

PrintScatter ==
    CallPrintout("L87", "L90", "scatterPlot.png", "Datapoints", "Values", "Scatter", ".")

Hist ==
    Plot("L90", "L91", Draw(World, "hist", 0, Tenths * (RngModulus - 1)))

PrintHist ==
    CallPrintout("L91", "L94", "histogram_plain.png", "Data Values", "Frequency",
                 "Histogram, default settings", ".")

HistDensity ==
    Plot("L94", "L95", Draw(World, "hist_density", 0, Tenths * (RngModulus - 1)))

PrintHistDensity ==
    CallPrintout("L95", "L100", "density_histogram.png", "Data Values", "Probability",
                 "Density Histogram, 25 bins", ".")

Boxplot ==
    Plot("L100", "L101", Draw(World, "boxplot", Tenths, Tenths))

PrintBoxplot ==
    CallPrintout("L101", "L103", "boxplot.png", "Values", "", "Boxplot", ".")

BoxplotHorizontal ==
    Plot("L103", "L106",
         Xlabel(Title(Draw(World, "boxplot_h", 0, Tenths * (RngModulus - 1)),
                      "Boxplot, horizontal"), "Values"))

\* line 106: plt.show() alone, the figure is neither saved nor closed
ShowBoxplotHorizontal ==
    \E destroys \in BOOLEAN : Plot("L106", "L109", Show(World, destroys))

ErrorbarData ==
    /\ Data("L109", "L112")
    /\ x' = Arange(NErr)
    /\ y' = Square(x')
    /\ errorBar' = TrueDiv(x', 2)
    /\ UNCHANGED <<rng, df, df2, fontSize>>

Errorbar ==
    Plot("L112", "L115",
         SetXlim(Draw(World, "errorbar", Tenths * x[1], Tenths * x[Len(x)]), <<-2, 42>>))

PrintErrorbar ==
    CallPrintout("L115", "L119", "Errorbars.png", "Data Values", "Measurements",
                 "Errorbars", ".")

Seed2 ==
    /\ Data("L119", "L120")
    /\ rng' = RngSeed(rng, SeedValue)
    /\ UNCHANGED <<x, y, errorBar, df, df2, fontSize>>

SetFonts20 ==
    /\ Data("L120", "L122")
    /\ fontSize' = setFonts(fontSize, Font20)
    /\ UNCHANGED <<rng, x, y, errorBar, df, df2>>

DrawDf ==
    /\ Data("L122", "L123")
    /\ df' = Rand(rng, DfRows, DfCols).vals
    /\ rng' = Rand(rng, DfRows, DfCols).rng
    /\ UNCHANGED <<x, y, errorBar, df2, fontSize>>

\* DataFrame.plot opens a figure of its own
Barplot ==
    Plot("L123", "L125", Draw(Figure(World), "bar", 0, Tenths * (DfRows - 1)))

ShowBarplot ==
    \E destroys \in BOOLEAN : Plot("L125", "L128", showData(World, "barplot.png", destroys))

DrawDf2 ==
    /\ Data("L128", "L129")
    /\ df2' = Rand(rng, Df2Rows, Df2Cols).vals
    /\ rng' = Rand(rng, Df2Rows, Df2Cols).rng
    /\ UNCHANGED <<x, y, errorBar, df, fontSize>>

Bivariate ==
    Plot("L129", "L132",
         Draw(Draw(Draw(Figure(World), "bubble", 0, Tenths), "axhline", 0, Tenths),
              "axvline", 0, 0))

PrintBivariate ==
    CallPrintout("L132", "L134", "bivariate.png", "", "", "", ".")

\* lines 134-144: sns.set_style('ticks') leaves the font size alone
Pie ==
    Plot("L134", "L145", Draw(World, "pie", -Tenths, Tenths))

PrintPie ==
    CallPrintout("L145", "L158", "piePlot.png", "", "", " ", ".")

Figure3D ==
    Plot("L158", "L159", Figure(World))

SetFonts3D ==
    /\ Data("L159", "L172")
    /\ fontSize' = setFonts(fontSize, Font16)
    /\ UNCHANGED <<rng, x, y, errorBar, df, df2>>

Surface ==
    Plot("L172", "L185", Draw(Draw(World, "surface", -50, 49), "colorbar", 0, Tenths))

Wireframe ==
    Plot("L185", "L189", Draw(World, "wireframe", -300, 300))

Show3DGraph ==
    \E destroys \in BOOLEAN : Plot("L189", "done", showData(World, "3dGraph.png", destroys))

NextPlots ==
    \/ Seed1 \/ DrawX \/ SnsSet \/ SetFonts16
    \/ Scatter \/ PrintScatter
    \/ Hist \/ PrintHist
    \/ HistDensity \/ PrintHistDensity
    \/ Boxplot \/ PrintBoxplot
    \/ BoxplotHorizontal \/ ShowBoxplotHorizontal
    \/ ErrorbarData \/ Errorbar \/ PrintErrorbar
    \/ Seed2 \/ SetFonts20 \/ DrawDf \/ Barplot \/ ShowBarplot
    \/ DrawDf2 \/ Bivariate \/ PrintBivariate
    \/ Pie \/ PrintPie
    \/ Figure3D \/ SetFonts3D \/ Surface \/ Wireframe \/ Show3DGraph

PlotsStart ==
    /\ pc = "L70"
    /\ styleAvail \in BOOLEAN
    /\ rng \in 0..RngInitMax
    /\ x = <<>> /\ y = <<>> /\ errorBar = <<>> /\ df = <<>> /\ df2 = <<>>
    /\ fontSize = 0
    /\ calls = <<>>

PlotsOff ==
    /\ pc = "off"
    /\ styleAvail = FALSE
    /\ rng = 0
    /\ x = <<>> /\ y = <<>> /\ errorBar = <<>> /\ df = <<>> /\ df2 = <<>>
    /\ fontSize = 0
    /\ calls = <<>>

PltStart ==
    /\ figs = <<>> /\ files = <<>> /\ stdout = <<>> /\ screen = <<>>
    /\ cwdWritable \in BOOLEAN

FilterOff ==
    /\ pcF = "off"
    /\ myStyleAvail = FALSE
    /\ img = <<>> /\ img_f = <<>> /\ Filters = <<>> /\ filtered = <<>> /\ axs = <<>>

RunsOff ==
    /\ runA = <<>> /\ runB = <<>>

Init == PlotsStart /\ PltStart /\ FilterOff /\ RunsOff

Next == NextPlots

Spec == Init /\ [][Next]_vars

----------------------------------------------------------------------------
(* Two runs of simplePlots, each in a process of its own: the statements    *)
(* that touch the generator or the data, in program order.                  *)

\* start is the state of the generator when the run begins
RunStart(s) == [pc |-> "L70", start |-> s, rng |-> s, x |-> <<>>, df |-> <<>>, df2 |-> <<>>]

simplePlotsData(r) ==
    CASE r.pc = "L70"  -> [r EXCEPT !.pc = "L73",  !.rng = RngSeed(r.rng, SeedValue)]
      [] r.pc = "L73"  -> LET d == Randn(r.rng, NSamples)
                          IN  [r EXCEPT !.pc = "L109", !.x = d.vals, !.rng = d.rng]
      [] r.pc = "L109" -> [r EXCEPT !.pc = "L119", !.x = Arange(NErr)]
      [] r.pc = "L119" -> [r EXCEPT !.pc = "L122", !.rng = RngSeed(r.rng, SeedValue)]
      [] r.pc = "L122" -> LET d == Rand(r.rng, DfRows, DfCols)
                          IN  [r EXCEPT !.pc = "L128", !.df = d.vals, !.rng = d.rng]
      [] r.pc = "L128" -> LET d == Rand(r.rng, Df2Rows, Df2Cols)
                          IN  [r EXCEPT !.pc = "done", !.df2 = d.vals, !.rng = d.rng]

StepA ==
    /\ runA.pc # "done"
    /\ runA' = simplePlotsData(runA)
    /\ UNCHANGED <<runB, plotVars, pltVars, filterVars>>

StepB ==
    /\ runB.pc # "done"
    /\ runB' = simplePlotsData(runB)
    /\ UNCHANGED <<runA, plotVars, pltVars, filterVars>>

PltOff ==
    /\ figs = <<>> /\ files = <<>> /\ stdout = <<>> /\ screen = <<>>
    /\ cwdWritable = TRUE

InitRuns ==
    /\ \E a \in 0..RngInitMax : runA = RunStart(a)
    /\ \E b \in 0..RngInitMax : runB = RunStart(b)
    /\ PlotsOff /\ PltOff /\ FilterOff

NextRuns == StepA \/ StepB

SpecRuns == InitRuns /\ [][NextRuns]_vars

----------------------------------------------------------------------------
(* F5_30_filter_images.py.  A matrix is a sequence of rows.  A float array  *)
(* is a record [num, den]: the matrix of numerators over one denominator.   *)

Rows(m) == Len(m)
Cols(m) == Len(m[1])

Ones(h, w)  == [i \in 1..h |-> [j \in 1..w |-> 1]]
Zeros(h, w) == [i \in 1..h |-> [j \in 1..w |-> 0]]

\* np.array(m, dtype=float)
AsFloat(m) == [num |-> m, den |-> 1]

\* m / k on a float array
Div(a, k) == [num |-> a.num, den |-> a.den * k]

\* k * m on a float array
Times(k, a) == [num |-> [i \in DOMAIN a.num |-> [j \in DOMAIN a.num[i] |-> k * a.num[i][j]]],
                den |-> a.den]

\* a.T
Transpose(a) ==
    [num |-> [j \in 1..Cols(a.num) |-> [i \in 1..Rows(a.num) |-> a.num[i][j]]],
     den |-> a.den]

\* scipy.ndimage boundary mode 'reflect' (d c b a | a b c d | d c b a):
\* the index in 1..n that index i of the extended axis stands for
Reflect(i, n) ==
    LET m == (i - 1) % (2 * n)
    IN  IF m < n THEN m + 1 ELSE 2 * n - m

RECURSIVE SumTo(_, _)
\* f[1] + ... + f[n]
SumTo(f, n) == IF n = 0 THEN 0 ELSE f[n] + SumTo(f, n - 1)

\* (mutant) the kernel anchored at its first element instead of its centre
CorrelateAnchored(a, k) ==
    LET h  == Rows(a.num)
        w  == Cols(a.num)
        kh == Rows(k.num)
        kw == Cols(k.num)
        At(r, c) ==
            SumTo([i \in 1..kh |->
                     SumTo([j \in 1..kw |->
                              k.num[i][j] * a.num[Reflect(r + i - 1, h)][Reflect(c + j - 1, w)]],
                           kw)],
                  kh)
    IN  [num |-> [r \in 1..h |-> [c \in 1..w |-> At(r, c)]], den |-> a.den * k.den]

\* (mutant) columns beyond the border taken as zero (mode 'constant')
CorrelateZeroColumns(a, k) ==
    LET h  == Rows(a.num)
        w  == Cols(a.num)
        kh == Rows(k.num)
        kw == Cols(k.num)
        oi == kh \div 2
        oj == kw \div 2
        Px(r, c) == IF c < 1 \/ c > w THEN 0 ELSE a.num[Reflect(r, h)][c]
        At(r, c) ==
            SumTo([i \in 1..kh |->
                     SumTo([j \in 1..kw |->
                              k.num[i][j] * Px(r + i - 1 - oi, c + j - 1 - oj)],
                           kw)],
                  kh)
    IN  [num |-> [r \in 1..h |-> [c \in 1..w |-> At(r, c)]], den |-> a.den * k.den]

\* ndimage.correlate(a, k): mode 'reflect', origin 0, so the kernel is centred
\* on element (size // 2) of each axis; the output has the shape of a
Correlate(a, k) ==
    LET h  == Rows(a.num)
        w  == Cols(a.num)
        kh == Rows(k.num)
        kw == Cols(k.num)
        oi == kh \div 2
        oj == kw \div 2
        At(r, c) ==
            SumTo([i \in 1..kh |->
                     SumTo([j \in 1..kw |->
                              k.num[i][j] * a.num[Reflect(r + i - 1 - oi, h)]
                                                 [Reflect(c + j - 1 - oj, w)]],
                           kw)],
                  kh)
    IN  [num |-> [r \in 1..h |-> [c \in 1..w |-> At(r, c)]], den |-> a.den * k.den]

\* (mutant) a >= v
GreaterEq(a, v) ==
    [r \in DOMAIN a.num |-> [c \in DOMAIN a.num[r] |-> a.num[r][c] >= v * a.den]]

\* a > v on a float array: the boolean mask
Greater(a, v) ==
    [r \in DOMAIN a.num |-> [c \in DOMAIN a.num[r] |-> a.num[r][c] > v * a.den]]

\* The test images, values of uint8: rows 1..split hold level top with one
\* column at level spot, the rows below hold level bg; or the transpose.
Image(top, spot, bg, split, col, t) ==
    LET base == [r \in 1..ImgH |-> [c \in 1..ImgW |->
                    IF r <= split THEN (IF c = col THEN spot ELSE top) ELSE bg]]
    IN  IF t THEN Transpose(AsFloat(base)).num ELSE base

Images ==
    {Image(top, spot, bg, split, col, t) :
        top \in {12, 200}, spot \in {5, 6}, bg \in {0, 100},
        split \in {3, 6}, col \in {1, 6}, t \in BOOLEAN}

\* utilities.my_style.show_data: save the named figure, report it, display
\* it and release it
show_data(w, out_file, destroys) ==
    LET w1 == Savefig(w, ".", PathJoin(".", out_file))
        w2 == PyPrint(PyPrint(w1, "OutDir: " \o "."), "Figure saved to " \o out_file)
        w3 == Show(w2, destroys)
    IN  IF w1.raised THEN w1 ELSE Close(w3)

CommitF(w, next) ==
    /\ figs'   = w.figs
    /\ files'  = w.files
    /\ stdout' = w.stdout
    /\ screen' = w.screen
    /\ pcF'    = IF w.raised THEN "raised" ELSE next
    /\ UNCHANGED <<cwdWritable, myStyleAvail, plotVars, runVars>>

\* line 15: the import has no fallback
ImportStyle ==
    /\ pcF = "L15"
    /\ pcF' = IF myStyleAvail THEN "L19" ELSE "ImportError"
    /\ UNCHANGED <<myStyleAvail, img, img_f, Filters, filtered, axs, plotVars, pltVars, runVars>>

DataF(from, next) ==
    /\ pcF = from
    /\ pcF' = next
    /\ UNCHANGED <<myStyleAvail, plotVars, pltVars, runVars>>

LoadImage ==
    /\ DataF("L19", "L22")
    /\ img' \in Images
    /\ UNCHANGED <<img_f, Filters, filtered, axs>>

ToFloat ==
    /\ DataF("L22", "L26")
    /\ img_f' = AsFloat(img)
    /\ UNCHANGED <<img, Filters, filtered, axs>>

AppendAverage ==
    /\ DataF("L26", "L27")
    /\ Filters' = Append(Filters, Div(AsFloat(Ones(KernelSize, KernelSize)), KernelArea))
    /\ UNCHANGED <<img, img_f, filtered, axs>>

AppendEdge ==
    /\ DataF("L27", "L28")
    /\ Filters' = Append(Filters,
                         AsFloat(<<Ones(1, KernelSize)[1], Zeros(1, KernelSize)[1],
                                   Times(-1, AsFloat(Ones(1, KernelSize))).num[1]>>))
    /\ UNCHANGED <<img, img_f, filtered, axs>>

AppendTranspose ==
    /\ DataF("L28", "L33")
    /\ Filters' = Append(Filters, Transpose(Filters[Len(Filters)]))
    /\ UNCHANGED <<img, img_f, filtered, axs>>

\* lines 32-33: one iteration of the loop over Filters
FilterImage ==
    /\ pcF = "L33"
    /\ Len(filtered) < Len(Filters)
    /\ filtered' = Append(filtered, Correlate(img_f, Filters[Len(filtered) + 1]))
    /\ pcF' = IF Len(filtered') = Len(Filters) THEN "L36" ELSE "L33"
    /\ UNCHANGED <<myStyleAvail, img, img_f, Filters, axs, plotVars, pltVars, runVars>>

\* lines 36-37: a figure with a grid of 3 x 2 empty axes
Subplots ==
    /\ pcF = "L36"
    /\ CommitF(Figure(World), "L39")
    /\ axs' = [r \in 1..3 |-> [c \in 1..2 |-> <<>>]]
    /\ UNCHANGED <<img, img_f, Filters, filtered>>

Imshow(from, next, r, c, data) ==
    /\ pcF = from
    /\ CommitF(Draw(World, "imshow", 0, Cols(img)), next)
    /\ axs' = [axs EXCEPT ![r][c] = data]
    /\ UNCHANGED <<img, img_f, Filters, filtered>>

Imshow00 == Imshow("L39", "L40", 1, 1, img)
Imshow01 == Imshow("L40", "L41", 1, 2, filtered[1])
Imshow10 == Imshow("L41", "L42", 2, 1, filtered[2])
Imshow11 == Imshow("L42", "L43", 2, 2, filtered[3])
Imshow20 == Imshow("L43", "L44", 3, 1, Greater(filtered[2], Threshold))
Imshow21 == Imshow("L44", "L56", 3, 2, Greater(filtered[3], Threshold))

\* lines 47-56: the ticks hidden, the layout tightened, then show_data
ShowFilterDemo ==
    /\ pcF = "L56"
    /\ \E destroys \in BOOLEAN : CommitF(show_data(World, "filter_demo.jpg", destroys), "done")
    /\ UNCHANGED <<img, img_f, Filters, filtered, axs>>

FilterStart ==
    /\ pcF = "L15"
    /\ myStyleAvail \in BOOLEAN
    /\ img = <<>> /\ img_f = <<>> /\ Filters = <<>> /\ filtered = <<>> /\ axs = <<>>

InitFilter == FilterStart /\ PltStart /\ PlotsOff /\ RunsOff

NextFilter ==
    \/ ImportStyle \/ LoadImage \/ ToFloat
    \/ AppendAverage \/ AppendEdge \/ AppendTranspose
    \/ FilterImage \/ Subplots
    \/ Imshow00 \/ Imshow01 \/ Imshow10 \/ Imshow11 \/ Imshow20 \/ Imshow21
    \/ ShowFilterDemo

SpecFilter == InitFilter /\ [][NextFilter]_vars

----------------------------------------------------------------------------
(* Claims about SAP_show_plots.py, checked under Spec *)

Returned == {i \in DOMAIN calls : calls[i].returned}

InSeq(e, q) == \E i \in DOMAIN q : q[i] = e

\* C1: every call of printout that returns, the output directory being
\* writable, has left a file at outDir/outFile and has printed a line naming
\* outDir and a line naming outFile.
C1_FileAndMessage ==
    \A i \in Returned :
        LET c == calls[i]
        IN  Writable(c.outDir) =>
              /\ \E k \in DOMAIN files : files[k].path = c.outDir \o "/" \o c.outFile
              /\ InSeq("OutDir: " \o c.outDir, stdout)
              /\ InSeq("Figure saved to " \o c.outFile, stdout)

C1_Witness ==
    /\ Len(calls) >= 2
    /\ calls[2].returned
    /\ calls[2].outFile = "histogram_plain.png"
    /\ Writable(calls[2].outDir)

SavedNames == [i \in DOMAIN files |-> files[i].path]

NinePlots ==
    <<"./scatterPlot.png", "./histogram_plain.png", "./density_histogram.png",
      "./boxplot.png", "./Errorbars.png", "./barplot.png", "./bivariate.png",
      "./piePlot.png", "./3dGraph.png">>

SevenPlots ==
    <<"./scatterPlot.png", "./histogram_plain.png", "./density_histogram.png",
      "./boxplot.png", "./Errorbars.png", "./bivariate.png", "./piePlot.png">>

\* C3 (as claimed): after simplePlots and show3D have run to completion the
\* nine files have been saved, in order, with or without the style module.
C3_NineFilesAlways ==
    pc = "done" /\ cwdWritable => SavedNames = NinePlots

\* C3 (amended): after simplePlots and show3D have run to completion, the
\* nine files have been saved in order when the style module is available;
\* without it only the seven files of printout have been saved, in order,
\* and barplot.png and 3dGraph.png have not.
C3_SavedFiles ==
    pc = "done" /\ cwdWritable =>
        SavedNames = IF styleAvail THEN NinePlots ELSE SevenPlots

C3_Witness ==
    pc = "done" /\ cwdWritable /\ ~styleAvail /\ Len(files) = 7 /\ Len(screen) >= 10

\* C8: in the errorbar demo x = 0..4, y = x*x = 0,1,4,9,16 and the error
\* magnitudes are x/2 = 0, 1/2, 1, 3/2, 2, element by element.
C8_Errorbar ==
    errorBar # <<>> =>
        /\ x = <<0, 1, 2, 3, 4>>
        /\ y = <<0, 1, 4, 9, 16>>
        /\ Len(errorBar) = 5
        /\ \A i \in 1..5 : 2 * errorBar[i].n = (i - 1) * errorBar[i].d
        /\ \A i \in 1..5 : errorBar[i].d > 0

C8_Witness ==
    pc = "L115" /\ Len(errorBar) = 5 /\ 2 * errorBar[4].n = 3 * errorBar[4].d

PrintoutOps ==
    <<"xlabel", "ylabel", "title", "hlines", "set_xlim", "savefig",
      "print", "print", "show", "close">>

\* C9: every call of printout that returns has applied the labels and the
\* title, drawn the reference line over the x-range read before, restored
\* that range, saved, printed, displayed and closed, in this order; the saved
\* file holds the labels and the line, and no figure is open at the return.
C9_PrintoutSteps ==
    \A i \in Returned :
        LET c == calls[i]
            f == files[c.file].fig
        IN  /\ c.ops = PrintoutOps
            /\ f.xlabel = c.xlabel /\ f.ylabel = c.ylabel /\ f.title = c.title
            /\ f.artists[Len(f.artists)] =
                   [kind |-> "hlines", lo |-> c.before.xlim[1], hi |-> c.before.xlim[2]]
            /\ f.xlim = c.before.xlim
            /\ c.open = 0

Demo(kind) ==
    CASE kind \in {"bubble", "axhline", "axvline"}     -> "bivariate"
      [] kind \in {"surface", "colorbar", "wireframe"} -> "3d"
      [] OTHER                                         -> kind

\* the demos that have drawn on a figure (the line of printout set aside)
DemosOn(f) == {Demo(f.artists[k].kind) : k \in DOMAIN f.artists} \ {"hlines"}

\* C10: every figure saved or displayed holds what one demo has drawn and
\* nothing of an earlier demo, and the bivariate table is the one drawn
\* when no table has been drawn before it.
C10_DemosIndependent ==
    /\ \A i \in DOMAIN files  : Cardinality(DemosOn(files[i].fig)) <= 1
    /\ \A i \in DOMAIN screen : Cardinality(DemosOn(screen[i])) <= 1
    /\ df2 # <<>> => df2 = Rand(RngSeed(rng, SeedValue), Df2Rows, Df2Cols).vals

----------------------------------------------------------------------------
(* Claims about the data of simplePlots, checked under SpecRuns *)

\* C4: two runs of simplePlots started from any two generator states have
\* the same sample array, the same bar table and the same bivariate table.
C4_SameData ==
    /\ runA.pc = "L109" /\ runB.pc = "L109" => runA.x = runB.x
    /\ runA.pc \in {"L128", "done"} /\ runB.pc \in {"L128", "done"} => runA.df = runB.df
    /\ runA.pc = "done" /\ runB.pc = "done" => runA.df2 = runB.df2

C4_Witness ==
    /\ runA.pc = "done" /\ runB.pc = "done"
    /\ runA.start # runB.start
    /\ runA.df2 = runB.df2 /\ Len(runA.df2) = Df2Rows /\ Len(runA.df) = DfRows

----------------------------------------------------------------------------
(* Claims about F5_30_filter_images.py, checked under SpecFilter *)

\* C2: without the style module neither script fails: the filter script
\* gets past its import, and the plot gallery does not raise.
C2_RunsWithoutStyle ==
    /\ ~myStyleAvail => pcF # "ImportError"
    /\ ~styleAvail /\ cwdWritable => pc # "raised"

Half == KernelSize \div 2

Interior(m) ==
    {p \in (1..Rows(m)) \X (1..Cols(m)) :
        /\ p[1] - Half >= 1 /\ p[1] + Half <= Rows(m)
        /\ p[2] - Half >= 1 /\ p[2] + Half <= Cols(m)}

\* the sum of the KernelSize x KernelSize values of m centred on (r, c)
NeighbourhoodSum(m, r, c) ==
    SumTo([i \in 1..KernelSize |->
             SumTo([j \in 1..KernelSize |-> m[r - Half - 1 + i][c - Half - 1 + j]],
                   KernelSize)],
          KernelSize)

\* C5: at every pixel whose 11 x 11 neighbourhood lies inside the image the
\* first filtered output is the mean of the 121 values of the neighbourhood.
C5_AverageIsMean ==
    Len(filtered) >= 1 =>
        \A p \in Interior(img) :
            filtered[1].num[p[1]][p[2]] * KernelArea
                = NeighbourhoodSum(img, p[1], p[2]) * filtered[1].den

C5_Witness ==
    /\ Len(filtered) >= 1
    /\ \E p \in Interior(img), q \in Interior(img) :
          /\ filtered[1].num[p[1]][p[2]] # filtered[1].num[q[1]][q[2]]
          /\ filtered[1].num[p[1]][p[2]] # KernelArea * img[p[1]][p[2]]

\* b is the transpose of a
IsTranspose(a, b) ==
    /\ Rows(b) = Cols(a) /\ Cols(b) = Rows(a)
    /\ \A i \in 1..Rows(a), j \in 1..Cols(a) : b[j][i] = a[i][j]

Transposed(m) == [j \in 1..Cols(m) |-> [i \in 1..Rows(m) |-> m[i][j]]]

\* C6: the third kernel is the transpose of the second, whose rows are +1,
\* 0 and -1 over 11 columns; correlating the image with one edge kernel and
\* transposing the result gives, at every pixel, the correlation of the
\* transposed image with the other edge kernel.
C6_TransposeCommutes ==
    /\ Len(Filters) = 3 =>
          /\ Filters[2].num = <<[j \in 1..11 |-> 1], [j \in 1..11 |-> 0], [j \in 1..11 |-> -1]>>
          /\ IsTranspose(Filters[2].num, Filters[3].num)
          /\ Filters[2].den = Filters[3].den
    /\ pcF = "L36" =>
          /\ IsTranspose(filtered[2].num,
                         Correlate(AsFloat(Transposed(img)), Filters[3]).num)
          /\ IsTranspose(filtered[3].num,
                         Correlate(AsFloat(Transposed(img)), Filters[2]).num)

C6_Witness ==
    /\ pcF = "L36"
    /\ Rows(img) # Cols(img)
    /\ \E r \in 1..Rows(img), c \in 1..Cols(img) :
          /\ filtered[2].num[r][c] # 0
          /\ filtered[3].num[r][c] # 0
          /\ filtered[2].num[r][c] # filtered[3].num[r][c]

\* C7: each mask of the third row has the shape of the image and is TRUE at
\* a pixel exactly when the edge-filtered value there is greater than 125.
C7_Mask ==
    \A k \in 1..2 :
        (axs # <<>> /\ axs[3][k] # <<>>) =>
            /\ Rows(axs[3][k]) = Rows(img) /\ Cols(axs[3][k]) = Cols(img)
            /\ \A r \in 1..Rows(img), c \in 1..Cols(img) :
                  axs[3][k][r][c] <=>
                      filtered[k + 1].num[r][c] > Threshold * filtered[k + 1].den

C7_Witness ==
    /\ pcF = "L56"
    /\ \E r \in 1..Rows(img), c \in 1..Cols(img) :
          filtered[2].num[r][c] = Threshold * filtered[2].den /\ ~axs[3][1][r][c]
    /\ \E r \in 1..Rows(img), c \in 1..Cols(img) : axs[3][1][r][c]
    /\ \E r \in 1..Rows(img), c \in 1..Cols(img) : ~axs[3][2][r][c]

====
